---------------------------- MODULE Spec2Model ----------------------------
(***************************************************************************)
(* Model of the escrow program (programs/escrow/src/lib.rs).               *)
(*                                                                         *)
(* State: the Escrow accounts (one per program-derived address             *)
(* ["escrow", initializer, recipient]), the balances of the token          *)
(* accounts of the single mint (one wallet per party, one vault per        *)
(* escrow), the cluster clock, the event log and the outcome of the last   *)
(* instruction.  One action per instruction handler; an action covers the  *)
(* account validation of the handler's #[derive(Accounts)] struct, the     *)
(* handler body, the token transfer and the emitted event.  The runtime    *)
(* discards every effect of a failed instruction: a failed instruction is *)
(* a step of the handler's *Fails action, which records the error in       *)
(* `last` and changes nothing else.                                        *)
(*                                                                         *)
(* Spec is the behaviour of the escrow of one (initializer, recipient)     *)
(* pair under Initialize and every Withdraw, Refund, Cancel and            *)
(* ResolveByArbiter, successful or failed.  SpecInit is its behaviour      *)
(* under every Initialize, successful or failed, and the successful other  *)
(* instructions.  SpecPair is the behaviour of the escrows of one          *)
(* initializer with two recipients under the successful instructions.      *)
(* SpecAll is the behaviour of one escrow with a fixed arbiter under every *)
(* instruction, successful or failed.  SpecSigned is Spec with a fixed     *)
(* arbiter and a negative, a zero or a positive timeout.                   *)
(***************************************************************************)
EXTENDS Integers, Sequences, FiniteSets, TLC

\* ------------------------------------------------------------- bounds ---
\* Largest representable timestamp (stands for i64::MAX; the smallest is
\* MinTs).  checked_add overflows outside MinTs..MaxTs.
MaxTs == 3
MinTs == (0 - MaxTs) - 1
\* The clock advances from 0 to at most MaxNow.
MaxNow == 2
\* Largest amount an Initialize is called with (above InitialBalance, so
\* that a deposit can exceed the balance).
MaxAmount == 3
\* Tokens minted to the first party's wallet before the first instruction.
InitialBalance == 2

\* Signers / public keys.
Parties == {"alice", "bob", "carol"}
\* The party whose wallet is funded at start (tests: initializer 100,
\* recipient 0), and the parties that call Initialize.
Funded == "alice"
Initializers == {Funded}
\* Recipients Initialize is called with in Spec (one of them the initializer
\* itself) and in SpecPair.
Recipients == {"alice", "bob"}
PairRecipients == Parties
\* Arbiter and timeout arguments of Initialize in SpecPair.
PairArbiters == {"carol"}
PairTimeouts == {1}
\* timeout arguments of Initialize: negative, short, and one that overflows
\* as soon as the clock is past 0.
Timeouts == {-1, 1, MaxTs}
\* timeout arguments of Initialize in SpecAll.
AllTimeouts == {1, MaxTs}
\* timeout arguments of Initialize in SpecSigned: negative, zero, positive.
SignedTimeouts == {-1, 0, 1}
Amounts == 0..MaxAmount

\* -------------------------------------------------------------- state ---
VARIABLES escrows, token, now, events, last
vars == <<escrows, token, now, events, last>>

\* ----------------------------------------------------------- accounts ---
\* Address of the Escrow account of a pair: PDA ["escrow", initializer,
\* recipient].
EscrowKey(i, r) == <<i, r>>
\* Address of the vault token account of an escrow: PDA ["vault", escrow].
Vault(k) == <<"vault", k[1], k[2]>>
\* The token account a party owns.
Wallet(p) == <<"wallet", p, p>>
IsWallet(a) == a[1] = "wallet"
NoAccount == <<"none", "none", "none">>
\* Token accounts that exist in the current state.
TokenAccounts == DOMAIN token
\* Accounts passed as the vault of escrow k: the derived vault, another
\* escrow's vault, or the caller's own wallet.
VaultInputs(k, caller) ==
    {a \in TokenAccounts : a = Vault(k) \/ ~IsWallet(a) \/ a = Wallet(caller)}
\* Bump seed stored by Initialize (ctx.bumps.*): a deterministic function of
\* the seeds.
CanonicalBump == 255

\* EscrowStatus
StatusInitialized == "Initialized"
StatusWithdrawn == "Withdrawn"
StatusRefunded == "Refunded"
StatusCancelled == "Cancelled"
EscrowStatus == {StatusInitialized, StatusWithdrawn, StatusRefunded, StatusCancelled}
Terminal == {StatusWithdrawn, StatusRefunded, StatusCancelled}

\* i64::checked_add: defined only when the sum is representable.
CheckedAddOk(a, b) == (a + b <= MaxTs) /\ (a + b >= MinTs)

\* spl-token Transfer of amt from account src to account dst: a transfer
\* from an account to itself leaves the balances as they are.
TransferOk(tok, src, amt) == tok[src] >= amt
Transfer(tok, src, dst, amt) ==
    IF src = dst THEN tok
    ELSE [tok EXCEPT ![src] = @ - amt, ![dst] = @ + amt]

NoOp == [op |-> "none", caller |-> "alice", escrow |-> <<"alice", "alice">>,
         vault |-> NoAccount, dest |-> NoAccount, amount |-> 0, timeout |-> 0,
         release |-> FALSE, result |-> "Ok"]

Init ==
    /\ escrows = <<>>
    /\ token = [a \in {Wallet(p) : p \in Parties} |->
                   IF a = Wallet(Funded) THEN InitialBalance ELSE 0]
    /\ now = 0
    /\ events = <<>>
    /\ last = NoOp

\* A clock that may also be set back.
Tick_NotMonotonic ==
    /\ \E t \in 0..MaxNow : t # now /\ now' = t
    /\ UNCHANGED <<escrows, token, events, last>>

\* ------------------------------------------------------------- clock ---
Tick ==
    /\ now < MaxNow
    /\ now' = now + 1
    /\ UNCHANGED <<escrows, token, events, last>>


\* Event records share one shape; a field an event does not carry holds the
\* default of NoEvent.
NoEvent == [kind |-> "none", escrow |-> <<"alice", "alice">>, party |-> "alice",
            arbiter |-> "alice", amount |-> 0, release |-> FALSE]
EscrowInitialized(k, i, r, a, amt) ==
    [NoEvent EXCEPT !.kind = "EscrowInitialized", !.escrow = k, !.party = i,
                    !.arbiter = a, !.amount = amt]
EscrowWithdrawn(k, r, amt) ==
    [NoEvent EXCEPT !.kind = "EscrowWithdrawn", !.escrow = k, !.party = r,
                    !.amount = amt]
EscrowRefunded(k, i, amt) ==
    [NoEvent EXCEPT !.kind = "EscrowRefunded", !.escrow = k, !.party = i,
                    !.amount = amt]
EscrowCancelled(k, i) ==
    [NoEvent EXCEPT !.kind = "EscrowCancelled", !.escrow = k, !.party = i]
\* EscrowResolved without the flag the arbiter chose.
EscrowResolved_NoFlag(k, a, rel) ==
    [NoEvent EXCEPT !.kind = "EscrowResolved", !.escrow = k, !.arbiter = a]

EscrowResolved(k, a, rel) ==
    [NoEvent EXCEPT !.kind = "EscrowResolved", !.escrow = k, !.arbiter = a,
                    !.release = rel]

\* Initialize without require!(amount > 0).
InitializeResult_NoAmountCheck(esc, tok, t, initializer, recipient, deposit, amount, timeout) ==
    IF EscrowKey(initializer, recipient) \in DOMAIN esc THEN "AccountInUse"
    ELSE IF ~(tok[deposit] > 0) THEN "ConstraintRaw"
    ELSE IF ~(IsWallet(deposit) /\ deposit[2] = initializer) THEN "ConstraintRaw"
    ELSE IF ~(initializer # recipient) THEN "InvalidRecipient"
    ELSE IF ~CheckedAddOk(t, timeout) THEN "Overflow"
    ELSE IF ~TransferOk(tok, deposit, amount) THEN "InsufficientFunds"
    ELSE "Ok"

\* Initialize without require!(initializer != recipient).
InitializeResult_NoRecipientCheck(esc, tok, t, initializer, recipient, deposit, amount, timeout) ==
    IF EscrowKey(initializer, recipient) \in DOMAIN esc THEN "AccountInUse"
    ELSE IF ~(tok[deposit] > 0) THEN "ConstraintRaw"
    ELSE IF ~(IsWallet(deposit) /\ deposit[2] = initializer) THEN "ConstraintRaw"
    ELSE IF ~(amount > 0) THEN "InvalidAmount"
    ELSE IF ~CheckedAddOk(t, timeout) THEN "Overflow"
    ELSE IF ~TransferOk(tok, deposit, amount) THEN "InsufficientFunds"
    ELSE "Ok"
\* Initialize with require!(amount >= 0).
InitializeResult_AmountNonNegative(esc, tok, t, initializer, recipient, deposit, amount, timeout) ==
    IF EscrowKey(initializer, recipient) \in DOMAIN esc THEN "AccountInUse"
    ELSE IF ~(tok[deposit] > 0) THEN "ConstraintRaw"
    ELSE IF ~(IsWallet(deposit) /\ deposit[2] = initializer) THEN "ConstraintRaw"
    ELSE IF ~(amount >= 0) THEN "InvalidAmount"
    ELSE IF ~(initializer # recipient) THEN "InvalidRecipient"
    ELSE IF ~CheckedAddOk(t, timeout) THEN "Overflow"
    ELSE IF ~TransferOk(tok, deposit, amount) THEN "InsufficientFunds"
    ELSE "Ok"

\* Initialize with an unchecked addition for the deadline.
InitializeResult_NoOverflowCheck(esc, tok, t, initializer, recipient, deposit, amount, timeout) ==
    IF EscrowKey(initializer, recipient) \in DOMAIN esc THEN "AccountInUse"
    ELSE IF ~(tok[deposit] > 0) THEN "ConstraintRaw"
    ELSE IF ~(IsWallet(deposit) /\ deposit[2] = initializer) THEN "ConstraintRaw"
    ELSE IF ~(amount > 0) THEN "InvalidAmount"
    ELSE IF ~(initializer # recipient) THEN "InvalidRecipient"
    ELSE IF ~TransferOk(tok, deposit, amount) THEN "InsufficientFunds"
    ELSE "Ok"

\* Initialize with a deposit transfer that does not check the balance.
InitializeResult_NoBalanceCheck(esc, tok, t, initializer, recipient, deposit, amount, timeout) ==
    IF EscrowKey(initializer, recipient) \in DOMAIN esc THEN "AccountInUse"
    ELSE IF ~(tok[deposit] > 0) THEN "ConstraintRaw"
    ELSE IF ~(IsWallet(deposit) /\ deposit[2] = initializer) THEN "ConstraintRaw"
    ELSE IF ~(amount > 0) THEN "InvalidAmount"
    ELSE IF ~(initializer # recipient) THEN "InvalidRecipient"
    ELSE IF ~CheckedAddOk(t, timeout) THEN "Overflow"
    ELSE "Ok"

\* Initialize with init_if_needed semantics: an existing Escrow account is
\* accepted.
InitializeResult_InitIfNeeded(esc, tok, t, initializer, recipient, deposit, amount, timeout) ==
    IF ~(tok[deposit] > 0) THEN "ConstraintRaw"
    ELSE IF ~(IsWallet(deposit) /\ deposit[2] = initializer) THEN "ConstraintRaw"
    ELSE IF ~(amount > 0) THEN "InvalidAmount"
    ELSE IF ~(initializer # recipient) THEN "InvalidRecipient"
    ELSE IF ~CheckedAddOk(t, timeout) THEN "Overflow"
    ELSE IF ~TransferOk(tok, deposit, amount) THEN "InsufficientFunds"
    ELSE "Ok"

\* Initialize accepting the address of a record that has reached a terminal
\* status, as if the Escrow account had been closed.
InitializeResult_ReuseClosed(esc, tok, t, initializer, recipient, deposit, amount, timeout) ==
    IF /\ EscrowKey(initializer, recipient) \in DOMAIN esc
       /\ esc[EscrowKey(initializer, recipient)].status = StatusInitialized
    THEN "AccountInUse"
    ELSE IF ~(tok[deposit] > 0) THEN "ConstraintRaw"
    ELSE IF ~(IsWallet(deposit) /\ deposit[2] = initializer) THEN "ConstraintRaw"
    ELSE IF ~(amount > 0) THEN "InvalidAmount"
    ELSE IF ~(initializer # recipient) THEN "InvalidRecipient"
    ELSE IF ~CheckedAddOk(t, timeout) THEN "Overflow"
    ELSE IF ~TransferOk(tok, deposit, amount) THEN "InsufficientFunds"
    ELSE "Ok"

\* Initialize rejecting a timeout that is not positive.
InitializeResult_PositiveTimeout(esc, tok, t, initializer, recipient, deposit, amount, timeout) ==
    IF EscrowKey(initializer, recipient) \in DOMAIN esc THEN "AccountInUse"
    ELSE IF ~(tok[deposit] > 0) THEN "ConstraintRaw"
    ELSE IF ~(IsWallet(deposit) /\ deposit[2] = initializer) THEN "ConstraintRaw"
    ELSE IF ~(amount > 0) THEN "InvalidAmount"
    ELSE IF ~(initializer # recipient) THEN "InvalidRecipient"
    ELSE IF ~(timeout > 0) THEN "InvalidTimeout"
    ELSE IF ~CheckedAddOk(t, timeout) THEN "Overflow"
    ELSE IF ~TransferOk(tok, deposit, amount) THEN "InsufficientFunds"
    ELSE "Ok"

\* ------------------------------------------------------- initialize ---
\* Outcome of Initialize: the Initialize accounts struct is validated first
\* (`init` of the escrow account, which fails when the address is already
\* in use, then the two constraints on the deposit account), then the
\* handler's require!s, then the deposit transfer.
InitializeResult(esc, tok, t, initializer, recipient, deposit, amount, timeout) ==
    IF EscrowKey(initializer, recipient) \in DOMAIN esc THEN "AccountInUse"
    ELSE IF ~(tok[deposit] > 0) THEN "ConstraintRaw"
    ELSE IF ~(IsWallet(deposit) /\ deposit[2] = initializer) THEN "ConstraintRaw"
    ELSE IF ~(amount > 0) THEN "InvalidAmount"
    ELSE IF ~(initializer # recipient) THEN "InvalidRecipient"
    ELSE IF ~CheckedAddOk(t, timeout) THEN "Overflow"
    ELSE IF ~TransferOk(tok, deposit, amount) THEN "InsufficientFunds"
    ELSE "Ok"

\* The Escrow account with the duration stored as the deadline.
NewEscrow_DurationAsDeadline(initializer, recipient, arbiter, amount, t, timeout) ==
    [initializer |-> initializer, recipient |-> recipient, arbiter |-> arbiter,
     amount |-> amount, timeout |-> timeout, status |-> StatusInitialized,
     vault_bump |-> CanonicalBump, escrow_bump |-> CanonicalBump]

\* The Escrow account written by a successful Initialize.
NewEscrow(initializer, recipient, arbiter, amount, t, timeout) ==
    [initializer |-> initializer, recipient |-> recipient, arbiter |-> arbiter,
     amount |-> amount, timeout |-> t + timeout, status |-> StatusInitialized,
     vault_bump |-> CanonicalBump, escrow_bump |-> CanonicalBump]

\* The record of an instruction in `last`: vault is the token account
\* passed as the vault; dest is the token account the instruction moved
\* tokens to or, for Initialize, from (NoAccount when the instruction failed
\* and moved nothing).
Call(op, caller, k, vault, dest, amount, timeout, release, res) ==
    [op |-> op, caller |-> caller, escrow |-> k, vault |-> vault,
     dest |-> dest, amount |-> amount, timeout |-> timeout,
     release |-> release, result |-> res]

InitializeWith(recipients, arbiters, timeouts) ==
    \E initializer \in Initializers, recipient \in recipients,
       deposit \in TokenAccounts, amount \in Amounts, timeout \in timeouts :
      LET k == EscrowKey(initializer, recipient) IN
      /\ InitializeResult(escrows, token, now, initializer, recipient,
                          deposit, amount, timeout) = "Ok"
      /\ \E arbiter \in arbiters :
           /\ escrows' = [x \in DOMAIN escrows \cup {k} |->
                            IF x = k
                            THEN NewEscrow(initializer, recipient, arbiter,
                                           amount, now, timeout)
                            ELSE escrows[x]]
           /\ events' = Append(events,
                  EscrowInitialized(k, initializer, recipient, arbiter, amount))
      /\ token' = Transfer([a \in TokenAccounts \cup {Vault(k)} |->
                              IF a = Vault(k) THEN 0 ELSE token[a]],
                           deposit, Vault(k), amount)
      /\ last' = Call("Initialize", initializer, k, Vault(k), deposit, amount, timeout,
                      FALSE, "Ok")
      /\ UNCHANGED now

\* Initialize accepting only an arbiter that is neither the initializer nor
\* the recipient.
Initialize_IndependentArbiter ==
    InitializeWith(Recipients, PairArbiters, Timeouts)

Initialize == InitializeWith(Recipients, Parties, Timeouts)

InitializePair == InitializeWith(PairRecipients, PairArbiters, PairTimeouts)

\* A failing Initialize that has left the Escrow account and the vault it
\* initialised behind when the deposit transfer failed.
InitializeFailsWith_KeepsRecord(recipients, timeouts) ==
    \E initializer \in Initializers, recipient \in recipients,
       amount \in Amounts, timeout \in timeouts :
     \E res \in {InitializeResult(escrows, token, now, initializer, recipient,
                                  deposit, amount, timeout) :
                   deposit \in TokenAccounts} \ {"Ok"} :
      LET k == EscrowKey(initializer, recipient) IN
      /\ last' = Call("Initialize", initializer, k, Vault(k), NoAccount,
                      amount, timeout, FALSE, res)
      /\ IF res = "InsufficientFunds"
         THEN /\ escrows' = [x \in DOMAIN escrows \cup {k} |->
                               IF x = k
                               THEN NewEscrow(initializer, recipient,
                                              initializer, amount, now, timeout)
                               ELSE escrows[x]]
              /\ token' = [a \in TokenAccounts \cup {Vault(k)} |->
                             IF a = Vault(k) THEN 0 ELSE token[a]]
         ELSE UNCHANGED <<escrows, token>>
      /\ UNCHANGED <<now, events>>

\* A failing Initialize: nothing is created and nothing moves.  The error is
\* the one the call gives with some deposit account; the deposit account
\* itself is not recorded in `last`.
InitializeFailsWith(recipients, timeouts) ==
    \E initializer \in Initializers, recipient \in recipients,
       amount \in Amounts, timeout \in timeouts :
     \E res \in {InitializeResult(escrows, token, now, initializer, recipient,
                                  deposit, amount, timeout) :
                   deposit \in TokenAccounts} \ {"Ok"} :
      /\ last' = Call("Initialize", initializer,
                      EscrowKey(initializer, recipient),
                      Vault(EscrowKey(initializer, recipient)), NoAccount, amount,
                      timeout, FALSE, res)
      /\ UNCHANGED <<escrows, token, now, events>>

InitializeFails == InitializeFailsWith(Recipients, Timeouts)

\* Initialize, successful and failed, with one arbiter and the two
\* non-negative timeouts.
InitializeAll == InitializeWith(Recipients, PairArbiters, AllTimeouts)
InitializeFailsAll == InitializeFailsWith(Recipients, AllTimeouts)

\* Initialize with one arbiter and a negative, a zero or a positive timeout.
InitializeSigned == InitializeWith(Recipients, PairArbiters, SignedTimeouts)

\* --------------------------------------------------------- withdraw ---
\* Variants of WithdrawResult: without the recipient constraint; with the
\* deadline itself still inside the withdrawal window.
WithdrawResult_NoRecipientCheck(rec, k, tok, t, caller, vaultIn) ==
    IF ~(vaultIn = Vault(k)) THEN "ConstraintSeeds"
    ELSE IF ~(rec.status = StatusInitialized) THEN "InvalidState"
    ELSE IF ~(t < rec.timeout) THEN "TimeoutExpired"
    ELSE IF ~(tok[vaultIn] >= rec.amount) THEN "InsufficientFunds"
    ELSE "Ok"
WithdrawResult_AtDeadline(rec, k, tok, t, caller, vaultIn) ==
    IF ~(rec.recipient = caller) THEN "InvalidRecipient"
    ELSE IF ~(vaultIn = Vault(k)) THEN "ConstraintSeeds"
    ELSE IF ~(rec.status = StatusInitialized) THEN "InvalidState"
    ELSE IF ~(t <= rec.timeout) THEN "TimeoutExpired"
    ELSE IF ~(tok[vaultIn] >= rec.amount) THEN "InsufficientFunds"
    ELSE "Ok"

\* Outcome of Withdraw on the Escrow account rec at address k: the Withdraw
\* accounts struct (recipient constraint on escrow_state, seeds of vault),
\* then the handler's require!s, then the transfer out of the vault.
WithdrawResult(rec, k, tok, t, caller, vaultIn) ==
    IF ~(rec.recipient = caller) THEN "InvalidRecipient"
    ELSE IF ~(vaultIn = Vault(k)) THEN "ConstraintSeeds"
    ELSE IF ~(rec.status = StatusInitialized) THEN "InvalidState"
    ELSE IF ~(t < rec.timeout) THEN "TimeoutExpired"
    ELSE IF ~TransferOk(tok, vaultIn, rec.amount) THEN "InsufficientFunds"
    ELSE "Ok"

\* withdraw that also clears the amount field of the record.
Withdraw_ClearsAmount ==
    \E caller \in Parties, k \in DOMAIN escrows :
     \E vaultIn \in VaultInputs(k, caller) :
      LET rec == escrows[k] IN
      /\ WithdrawResult(rec, k, token, now, caller, vaultIn) = "Ok"
      /\ \E dest \in TokenAccounts :
           /\ token' = Transfer(token, vaultIn, dest, rec.amount)
           /\ last' = Call("Withdraw", caller, k, vaultIn, dest, 0, 0, FALSE, "Ok")
      /\ escrows' = [escrows EXCEPT ![k].status = StatusWithdrawn,
                                    ![k].amount = 0]
      /\ events' = Append(events, EscrowWithdrawn(k, caller, rec.amount))
      /\ UNCHANGED now

Withdraw ==
    \E caller \in Parties, k \in DOMAIN escrows :
     \E vaultIn \in VaultInputs(k, caller) :
      LET rec == escrows[k] IN
      /\ WithdrawResult(rec, k, token, now, caller, vaultIn) = "Ok"
      /\ \E dest \in TokenAccounts :
           /\ token' = Transfer(token, vaultIn, dest, rec.amount)
           /\ last' = Call("Withdraw", caller, k, vaultIn, dest, 0, 0, FALSE, "Ok")
      /\ escrows' = [escrows EXCEPT ![k].status = StatusWithdrawn]
      /\ events' = Append(events, EscrowWithdrawn(k, caller, rec.amount))
      /\ UNCHANGED now

WithdrawFails ==
    \E caller \in Parties, k \in DOMAIN escrows :
     \E vaultIn \in VaultInputs(k, caller) :
      LET res == WithdrawResult(escrows[k], k, token, now, caller, vaultIn) IN
      /\ res # "Ok"
      /\ last' = Call("Withdraw", caller, k, vaultIn, NoAccount, 0, 0, FALSE, res)
      /\ UNCHANGED <<escrows, token, now, events>>

\* ----------------------------------------------------------- refund ---
\* Variants of RefundResult: the status checked before the initializer
\* constraint; the timing checked before the status; the deadline itself
\* still outside the refund window.
RefundResult_StateFirst(rec, k, tok, t, caller, vaultIn) ==
    IF ~(rec.status = StatusInitialized) THEN "InvalidState"
    ELSE IF ~(rec.initializer = caller) THEN "InvalidInitializer"
    ELSE IF ~(vaultIn = Vault(k)) THEN "ConstraintSeeds"
    ELSE IF ~(t >= rec.timeout) THEN "RefundNotAllowed"
    ELSE IF ~(tok[vaultIn] >= rec.amount) THEN "InsufficientFunds"
    ELSE "Ok"
RefundResult_TimingFirst(rec, k, tok, t, caller, vaultIn) ==
    IF ~(rec.initializer = caller) THEN "InvalidInitializer"
    ELSE IF ~(vaultIn = Vault(k)) THEN "ConstraintSeeds"
    ELSE IF ~(t >= rec.timeout) THEN "RefundNotAllowed"
    ELSE IF ~(rec.status = StatusInitialized) THEN "InvalidState"
    ELSE IF ~(tok[vaultIn] >= rec.amount) THEN "InsufficientFunds"
    ELSE "Ok"
RefundResult_AfterDeadline(rec, k, tok, t, caller, vaultIn) ==
    IF ~(rec.initializer = caller) THEN "InvalidInitializer"
    ELSE IF ~(vaultIn = Vault(k)) THEN "ConstraintSeeds"
    ELSE IF ~(rec.status = StatusInitialized) THEN "InvalidState"
    ELSE IF ~(t > rec.timeout) THEN "RefundNotAllowed"
    ELSE IF ~(tok[vaultIn] >= rec.amount) THEN "InsufficientFunds"
    ELSE "Ok"

RefundResult(rec, k, tok, t, caller, vaultIn) ==
    IF ~(rec.initializer = caller) THEN "InvalidInitializer"
    ELSE IF ~(vaultIn = Vault(k)) THEN "ConstraintSeeds"
    ELSE IF ~(rec.status = StatusInitialized) THEN "InvalidState"
    ELSE IF ~(t >= rec.timeout) THEN "RefundNotAllowed"
    ELSE IF ~TransferOk(tok, vaultIn, rec.amount) THEN "InsufficientFunds"
    ELSE "Ok"

Refund ==
    \E caller \in Parties, k \in DOMAIN escrows :
     \E vaultIn \in VaultInputs(k, caller) :
      LET rec == escrows[k] IN
      /\ RefundResult(rec, k, token, now, caller, vaultIn) = "Ok"
      /\ \E dest \in TokenAccounts :
           /\ token' = Transfer(token, vaultIn, dest, rec.amount)
           /\ last' = Call("Refund", caller, k, vaultIn, dest, 0, 0, FALSE, "Ok")
      /\ escrows' = [escrows EXCEPT ![k].status = StatusRefunded]
      /\ events' = Append(events, EscrowRefunded(k, caller, rec.amount))
      /\ UNCHANGED now

RefundFails ==
    \E caller \in Parties, k \in DOMAIN escrows :
     \E vaultIn \in VaultInputs(k, caller) :
      LET res == RefundResult(escrows[k], k, token, now, caller, vaultIn) IN
      /\ res # "Ok"
      /\ last' = Call("Refund", caller, k, vaultIn, NoAccount, 0, 0, FALSE, res)
      /\ UNCHANGED <<escrows, token, now, events>>

\* ----------------------------------------------------------- cancel ---
\* Variants of CancelResult: without the status check; with the deadline
\* itself still inside the cancellation window.
CancelResult_NoStateCheck(rec, k, tok, t, caller, vaultIn) ==
    IF ~(rec.initializer = caller) THEN "InvalidInitializer"
    ELSE IF ~(vaultIn = Vault(k)) THEN "ConstraintSeeds"
    ELSE IF ~(t < rec.timeout) THEN "CancelNotAllowed"
    ELSE IF ~(tok[vaultIn] >= rec.amount) THEN "InsufficientFunds"
    ELSE "Ok"
CancelResult_AtDeadline(rec, k, tok, t, caller, vaultIn) ==
    IF ~(rec.initializer = caller) THEN "InvalidInitializer"
    ELSE IF ~(vaultIn = Vault(k)) THEN "ConstraintSeeds"
    ELSE IF ~(rec.status = StatusInitialized) THEN "InvalidState"
    ELSE IF ~(t <= rec.timeout) THEN "CancelNotAllowed"
    ELSE IF ~(tok[vaultIn] >= rec.amount) THEN "InsufficientFunds"
    ELSE "Ok"

\* cancel without the timing check.
CancelResult_NoTimingCheck(rec, k, tok, t, caller, vaultIn) ==
    IF ~(rec.initializer = caller) THEN "InvalidInitializer"
    ELSE IF ~(vaultIn = Vault(k)) THEN "ConstraintSeeds"
    ELSE IF ~(rec.status = StatusInitialized) THEN "InvalidState"
    ELSE IF ~TransferOk(tok, vaultIn, rec.amount) THEN "InsufficientFunds"
    ELSE "Ok"

\* cancel whose window closes one second before the deadline.
CancelResult_ClosesEarly(rec, k, tok, t, caller, vaultIn) ==
    IF ~(rec.initializer = caller) THEN "InvalidInitializer"
    ELSE IF ~(vaultIn = Vault(k)) THEN "ConstraintSeeds"
    ELSE IF ~(rec.status = StatusInitialized) THEN "InvalidState"
    ELSE IF ~(t + 1 < rec.timeout) THEN "CancelNotAllowed"
    ELSE IF ~TransferOk(tok, vaultIn, rec.amount) THEN "InsufficientFunds"
    ELSE "Ok"

CancelResult(rec, k, tok, t, caller, vaultIn) ==
    IF ~(rec.initializer = caller) THEN "InvalidInitializer"
    ELSE IF ~(vaultIn = Vault(k)) THEN "ConstraintSeeds"
    ELSE IF ~(rec.status = StatusInitialized) THEN "InvalidState"
    ELSE IF ~(t < rec.timeout) THEN "CancelNotAllowed"
    ELSE IF ~TransferOk(tok, vaultIn, rec.amount) THEN "InsufficientFunds"
    ELSE "Ok"

Cancel ==
    \E caller \in Parties, k \in DOMAIN escrows :
     \E vaultIn \in VaultInputs(k, caller) :
      LET rec == escrows[k] IN
      /\ CancelResult(rec, k, token, now, caller, vaultIn) = "Ok"
      /\ \E dest \in TokenAccounts :
           /\ token' = Transfer(token, vaultIn, dest, rec.amount)
           /\ last' = Call("Cancel", caller, k, vaultIn, dest, 0, 0, FALSE, "Ok")
      /\ escrows' = [escrows EXCEPT ![k].status = StatusCancelled]
      /\ events' = Append(events, EscrowCancelled(k, caller))
      /\ UNCHANGED now

CancelFails ==
    \E caller \in Parties, k \in DOMAIN escrows :
     \E vaultIn \in VaultInputs(k, caller) :
      LET res == CancelResult(escrows[k], k, token, now, caller, vaultIn) IN
      /\ res # "Ok"
      /\ last' = Call("Cancel", caller, k, vaultIn, NoAccount, 0, 0, FALSE, res)
      /\ UNCHANGED <<escrows, token, now, events>>

\* resolve_by_arbiter with the timing check of withdraw added.
ResolveResult_BeforeDeadline(rec, k, tok, t, caller, vaultIn) ==
    IF ~(rec.arbiter = caller) THEN "InvalidArbiter"
    ELSE IF ~(vaultIn = Vault(k)) THEN "ConstraintSeeds"
    ELSE IF ~(rec.status = StatusInitialized) THEN "InvalidState"
    ELSE IF ~(t < rec.timeout) THEN "TimeoutExpired"
    ELSE IF ~TransferOk(tok, vaultIn, rec.amount) THEN "InsufficientFunds"
    ELSE "Ok"

\* ----------------------------------------------- resolve_by_arbiter ---
ResolveResult(rec, k, tok, t, caller, vaultIn) ==
    IF ~(rec.arbiter = caller) THEN "InvalidArbiter"
    ELSE IF ~(vaultIn = Vault(k)) THEN "ConstraintSeeds"
    ELSE IF ~(rec.status = StatusInitialized) THEN "InvalidState"
    ELSE IF ~TransferOk(tok, vaultIn, rec.amount) THEN "InsufficientFunds"
    ELSE "Ok"

\* Status written by resolve_by_arbiter.
ResolvedStatus(release_to_recipient) ==
    IF release_to_recipient THEN StatusWithdrawn ELSE StatusRefunded

\* recipientDest and initializerDest are the accounts passed as
\* recipient_deposit_token_account and initializer_refund_token_account.
ResolveByArbiter ==
    \E caller \in Parties, k \in DOMAIN escrows,
       release_to_recipient \in BOOLEAN :
     \E vaultIn \in VaultInputs(k, caller) :
      LET rec == escrows[k] IN
      /\ ResolveResult(rec, k, token, now, caller, vaultIn) = "Ok"
      /\ \E recipientDest \in TokenAccounts, initializerDest \in TokenAccounts :
           LET dest == IF release_to_recipient THEN recipientDest
                       ELSE initializerDest
           IN
           /\ token' = Transfer(token, vaultIn, dest, rec.amount)
           /\ last' = Call("ResolveByArbiter", caller, k, vaultIn, dest, 0, 0,
                           release_to_recipient, "Ok")
      /\ escrows' = [escrows EXCEPT ![k].status =
                                      ResolvedStatus(release_to_recipient)]
      /\ events' = Append(events,
                          EscrowResolved(k, caller, release_to_recipient))
      /\ UNCHANGED now

ResolveByArbiterFails ==
    \E caller \in Parties, k \in DOMAIN escrows,
       release_to_recipient \in BOOLEAN :
     \E vaultIn \in VaultInputs(k, caller) :
      LET res == ResolveResult(escrows[k], k, token, now, caller, vaultIn) IN
      /\ res # "Ok"
      /\ last' = Call("ResolveByArbiter", caller, k, vaultIn, NoAccount, 0, 0,
                      release_to_recipient, res)
      /\ UNCHANGED <<escrows, token, now, events>>

\* ---------------------------------------------------- specifications ---
Next ==
    \/ Tick
    \/ Initialize
    \/ Withdraw
    \/ Refund
    \/ Cancel
    \/ ResolveByArbiter
    \/ WithdrawFails
    \/ RefundFails
    \/ CancelFails
    \/ ResolveByArbiterFails

Spec == Init /\ [][Next]_vars

NextInit ==
    \/ Tick
    \/ Initialize
    \/ Withdraw
    \/ Refund
    \/ Cancel
    \/ ResolveByArbiter
    \/ InitializeFails

SpecInit == Init /\ [][NextInit]_vars

NextPair ==
    \/ Tick
    \/ InitializePair
    \/ Withdraw
    \/ Refund
    \/ Cancel
    \/ ResolveByArbiter

SpecPair == Init /\ [][NextPair]_vars

NextAll ==
    \/ Tick
    \/ InitializeAll
    \/ Withdraw
    \/ Refund
    \/ Cancel
    \/ ResolveByArbiter
    \/ InitializeFailsAll
    \/ WithdrawFails
    \/ RefundFails
    \/ CancelFails
    \/ ResolveByArbiterFails

SpecAll == Init /\ [][NextAll]_vars

NextSigned ==
    \/ Tick
    \/ InitializeSigned
    \/ Withdraw
    \/ Refund
    \/ Cancel
    \/ ResolveByArbiter
    \/ WithdrawFails
    \/ RefundFails
    \/ CancelFails
    \/ ResolveByArbiterFails

SpecSigned == Init /\ [][NextSigned]_vars

TypeOK ==
    /\ now \in 0..MaxNow
    /\ \A k \in DOMAIN escrows :
         /\ escrows[k].status \in EscrowStatus
         /\ escrows[k].timeout \in MinTs..MaxTs
         /\ Vault(k) \in DOMAIN token
    /\ \A a \in DOMAIN token : token[a] \in Nat


\* ---------------------------------------------------------- helpers ---
TerminalOps == {"Withdraw", "Refund", "Cancel", "ResolveByArbiter"}
TerminalEvents == {"EscrowWithdrawn", "EscrowRefunded", "EscrowCancelled",
                   "EscrowResolved"}
\* The caller the instruction op authenticates against the Escrow account.
Authorized(op, caller, rec) ==
    \/ op = "Withdraw" /\ caller = rec.recipient
    \/ op \in {"Refund", "Cancel"} /\ caller = rec.initializer
    \/ op = "ResolveByArbiter" /\ caller = rec.arbiter
\* Balance of the vault of escrow k (0 before the vault exists).
VaultBalance(k) == IF Vault(k) \in DOMAIN token THEN token[Vault(k)] ELSE 0
\* Tokens held by the initializer, the recipient and the vault of a pair.
PartySum(i, r) ==
    token[Wallet(i)] + token[Wallet(r)] + VaultBalance(EscrowKey(i, r))
\* Number of terminal events of escrow k in an event log.
TerminalEventCount(k, log) ==
    Cardinality({n \in 1..Len(log) :
                   log[n].escrow = k /\ log[n].kind \in TerminalEvents})

\* ----------------------------------------------------------- claims ---
\* C1: in every reachable state, a record whose status is Initialized has a
\* vault whose balance is exactly the record's amount.
C1_InitializedVaultHoldsAmount ==
    \A k \in DOMAIN escrows :
      escrows[k].status = StatusInitialized =>
        token[Vault(k)] = escrows[k].amount

\* C2: in every reachable state, a record whose status is terminal has a
\* vault whose balance is exactly 0, whatever destination the caller of the
\* terminal operation supplied.
C2_TerminalVaultEmpty ==
    \A k \in DOMAIN escrows :
      escrows[k].status \in Terminal => token[Vault(k)] = 0

\* C3: a terminal status never changes again, no record is removed, and at
\* most one Withdraw, Refund, Cancel or ResolveByArbiter ever succeeds on a
\* record (the log holds at most one terminal event per record).
C3_OneWayNoDoubleSpend ==
    [][\A k \in DOMAIN escrows :
         /\ k \in DOMAIN escrows'
         /\ escrows[k].status \in Terminal =>
              escrows'[k].status = escrows[k].status
         /\ TerminalEventCount(k, events') <= 1]_vars

\* C3 witness: a second terminal operation was attempted on a Cancelled
\* record by its initializer and was rejected.
C3_Witness ==
    /\ last.op = "Refund"
    /\ last.result = "InvalidState"
    /\ escrows[last.escrow].status = StatusCancelled
    /\ TerminalEventCount(last.escrow, events) = 1

\* C4: the balance of a record's vault decreases only in a step that is a
\* successful Withdraw by the record's recipient, a successful Refund or
\* Cancel by its initializer, or a successful ResolveByArbiter by its
\* arbiter, applied to that record.
C4_NoUnauthorizedRelease ==
    [][\A k \in DOMAIN escrows :
         token'[Vault(k)] < token[Vault(k)] =>
           /\ last'.result = "Ok"
           /\ last'.escrow = k
           /\ last'.vault = Vault(k)
           /\ Authorized(last'.op, last'.caller, escrows[k])]_vars

\* C4 witness: the recipient has withdrawn from one vault while another
\* record is still open.
C4_Witness ==
    /\ last.op = "Withdraw"
    /\ last.result = "Ok"
    /\ last.caller = escrows[last.escrow].recipient
    /\ token[Vault(last.escrow)] < escrows[last.escrow].amount
    /\ \E k \in DOMAIN escrows : escrows[k].status = StatusInitialized

\* C5: the sum initializer balance + recipient balance + vault balance of a
\* pair is the same before and after every operation, for every caller and
\* every destination supplied.
C5_Conservation ==
    [][\A i \in Initializers, r \in Recipients :
         i # r => PartySum(i, r)' = PartySum(i, r)]_vars

\* C6: an instruction by a caller other than the one it authenticates fails
\* with the authorization error of that instruction (InvalidRecipient for
\* Withdraw, InvalidInitializer for Refund and Cancel, InvalidArbiter for
\* ResolveByArbiter), whatever the record's status and the clock.
C6_AuthorizationFirst ==
    last.op \in TerminalOps /\
      ~Authorized(last.op, last.caller, escrows[last.escrow]) =>
        last.result = CASE last.op = "Withdraw" -> "InvalidRecipient"
                        [] last.op \in {"Refund", "Cancel"} -> "InvalidInitializer"
                        [] OTHER -> "InvalidArbiter"

\* C6 witness: a Refund by a party that is not the initializer was rejected
\* with InvalidInitializer on a record that is already terminal, after the
\* deadline.
C6_Witness ==
    /\ last.op = "Refund"
    /\ last.caller # escrows[last.escrow].initializer
    /\ last.result = "InvalidInitializer"
    /\ escrows[last.escrow].status \in Terminal
    /\ now >= escrows[last.escrow].timeout

\* C7 as stated: once a record's status has left Initialized, every
\* Withdraw, Refund, Cancel and ResolveByArbiter on it fails with
\* InvalidState.
C7_EveryCallInvalidState ==
    [][(now' = now /\ last'.op \in TerminalOps
          /\ escrows[last'.escrow].status \in Terminal) =>
         last'.result = "InvalidState"]_vars

\* C7 amended: once a record's status has left Initialized, every Withdraw,
\* Refund, Cancel and ResolveByArbiter on it by the caller that instruction
\* authenticates, passed the record's own vault, fails with InvalidState,
\* also when the timing condition of the instruction is not met.
C7_AuthorizedCallInvalidState ==
    [][(now' = now /\ last'.op \in TerminalOps
          /\ escrows[last'.escrow].status \in Terminal
          /\ Authorized(last'.op, last'.caller, escrows[last'.escrow])
          /\ last'.vault = Vault(last'.escrow)) =>
         last'.result = "InvalidState"]_vars

\* C7 witness: a Refund before the deadline on a Cancelled record was
\* rejected with InvalidState.
C7_Witness ==
    /\ last.op = "Refund"
    /\ last.caller = escrows[last.escrow].initializer
    /\ last.result = "InvalidState"
    /\ escrows[last.escrow].status = StatusCancelled
    /\ now < escrows[last.escrow].timeout

\* C8: a Withdraw by the recipient on an Initialized record succeeds (and
\* sets Withdrawn) if now < deadline, and otherwise fails with
\* TimeoutExpired and leaves the vault balance unchanged.
C8_WithdrawTiming ==
    [][(now' = now /\ last'.op = "Withdraw"
          /\ escrows[last'.escrow].status = StatusInitialized
          /\ last'.caller = escrows[last'.escrow].recipient
          /\ last'.vault = Vault(last'.escrow)) =>
         IF now < escrows[last'.escrow].timeout
         THEN /\ last'.result = "Ok"
              /\ escrows'[last'.escrow].status = StatusWithdrawn
         ELSE /\ last'.result = "TimeoutExpired"
              /\ token'[last'.vault] = token[last'.vault]
              /\ escrows' = escrows]_vars

\* C8 witness: a Withdraw by the recipient exactly at the deadline was
\* rejected with TimeoutExpired.
C8_Witness ==
    /\ last.op = "Withdraw"
    /\ last.caller = escrows[last.escrow].recipient
    /\ last.result = "TimeoutExpired"
    /\ now = escrows[last.escrow].timeout
    /\ token[Vault(last.escrow)] = escrows[last.escrow].amount

\* C9: a Refund by the initializer on an Initialized record succeeds (and
\* sets Refunded) if now >= deadline, and otherwise fails with
\* RefundNotAllowed.
C9_RefundTiming ==
    [][(now' = now /\ last'.op = "Refund"
          /\ escrows[last'.escrow].status = StatusInitialized
          /\ last'.caller = escrows[last'.escrow].initializer
          /\ last'.vault = Vault(last'.escrow)) =>
         IF now >= escrows[last'.escrow].timeout
         THEN /\ last'.result = "Ok"
              /\ escrows'[last'.escrow].status = StatusRefunded
         ELSE /\ last'.result = "RefundNotAllowed"
              /\ escrows' = escrows]_vars

\* C9 witness: a Refund by the initializer exactly at the deadline
\* succeeded.
C9_Witness ==
    /\ last.op = "Refund"
    /\ last.caller = escrows[last.escrow].initializer
    /\ last.result = "Ok"
    /\ now = escrows[last.escrow].timeout
    /\ escrows[last.escrow].status = StatusRefunded

\* C10: a Cancel by the initializer on an Initialized record succeeds (and
\* sets Cancelled) if now < deadline, and otherwise fails with
\* CancelNotAllowed.
C10_CancelTiming ==
    [][(now' = now /\ last'.op = "Cancel"
          /\ escrows[last'.escrow].status = StatusInitialized
          /\ last'.caller = escrows[last'.escrow].initializer
          /\ last'.vault = Vault(last'.escrow)) =>
         IF now < escrows[last'.escrow].timeout
         THEN /\ last'.result = "Ok"
              /\ escrows'[last'.escrow].status = StatusCancelled
         ELSE /\ last'.result = "CancelNotAllowed"
              /\ escrows' = escrows]_vars

\* C10 witness: a Cancel by the initializer exactly at the deadline was
\* rejected with CancelNotAllowed.
C10_Witness ==
    /\ last.op = "Cancel"
    /\ last.caller = escrows[last.escrow].initializer
    /\ last.result = "CancelNotAllowed"
    /\ now = escrows[last.escrow].timeout
    /\ escrows[last.escrow].status = StatusInitialized

-----------------------------------------------------------------------------
\* C11: ResolveByArbiter has no timing constraint.  In every state, for every
\* record in status Initialized, the call by the record's arbiter with the
\* record's own vault is accepted at the current time, whatever the time is;
\* and every such call that is made, with either value of
\* release_to_recipient, returns Ok and moves the record to the status chosen
\* by the flag.
C11_ResolveNoTiming ==
    [][/\ \A k \in DOMAIN escrows :
            escrows[k].status = StatusInitialized =>
              ResolveResult(escrows[k], k, token, now, escrows[k].arbiter,
                            Vault(k)) = "Ok"
       /\ (now' = now /\ last'.op = "ResolveByArbiter"
             /\ escrows[last'.escrow].status = StatusInitialized
             /\ last'.caller = escrows[last'.escrow].arbiter
             /\ last'.vault = Vault(last'.escrow)) =>
            /\ last'.result = "Ok"
            /\ escrows'[last'.escrow].status = ResolvedStatus(last'.release)]_vars

\* The arbiter released to the recipient a record whose deadline had passed
\* before the record was even created (timeout_duration < 0).
C11_Witness ==
    /\ last.op = "ResolveByArbiter"
    /\ last.result = "Ok"
    /\ last.release
    /\ escrows[last.escrow].timeout < 0
    /\ escrows[last.escrow].status = StatusWithdrawn

-----------------------------------------------------------------------------
\* The wallet of party p gains amt in the step and no other wallet changes.
CreditsOnly(p, amt) ==
    /\ token'[Wallet(p)] = token[Wallet(p)] + amt
    /\ \A q \in Parties \ {p} : token'[Wallet(q)] = token[Wallet(q)]

\* C12: a successful ResolveByArbiter with release_to_recipient = TRUE credits
\* the record's amount to the record's recipient and to no other party and
\* sets status Withdrawn; with FALSE it credits the amount to the record's
\* initializer and to no other party and sets status Refunded.
C12_ResolveCreditsChosenParty ==
    [][(now' = now /\ last'.op = "ResolveByArbiter" /\ last'.result = "Ok"
          /\ escrows[last'.escrow].status = StatusInitialized) =>
         LET rec == escrows[last'.escrow] IN
         IF last'.release
         THEN /\ CreditsOnly(rec.recipient, rec.amount)
              /\ escrows'[last'.escrow].status = StatusWithdrawn
         ELSE /\ CreditsOnly(rec.initializer, rec.amount)
              /\ escrows'[last'.escrow].status = StatusRefunded]_vars

-----------------------------------------------------------------------------
\* C13: a successful Initialize(amount, timeout_duration) creates the record
\* with status Initialized, the given initializer, recipient, arbiter and
\* amount and deadline = now + timeout_duration, and moves exactly amount
\* from the initializer's balance into the newly created vault: the
\* initializer's balance decreases by amount, the vault's balance becomes
\* amount, and no other token account changes.
C13_InitializeEffect ==
    [][(now' = now /\ last'.op = "Initialize" /\ last'.result = "Ok") =>
         LET k   == last'.escrow
             rec == escrows'[k]
             ev  == events'[Len(events')]
         IN
         /\ k \notin DOMAIN escrows
         /\ Vault(k) \notin DOMAIN token
         /\ DOMAIN escrows' = DOMAIN escrows \cup {k}
         /\ \A x \in DOMAIN escrows : escrows'[x] = escrows[x]
         /\ rec.status = StatusInitialized
         /\ rec.initializer = last'.caller
         /\ k = EscrowKey(rec.initializer, rec.recipient)
         /\ ev.kind = "EscrowInitialized" /\ rec.arbiter = ev.arbiter
         /\ rec.amount = last'.amount
         /\ rec.timeout = now + last'.timeout
         /\ token'[Wallet(rec.initializer)] =
              token[Wallet(rec.initializer)] - rec.amount
         /\ token'[Vault(k)] = rec.amount
         /\ \A a \in DOMAIN token \ {Wallet(rec.initializer)} :
              token'[a] = token[a]]_vars

\* An escrow has just been created at a time other than 0 with the whole
\* balance of the initializer.
C13_Witness ==
    /\ last.op = "Initialize"
    /\ last.result = "Ok"
    /\ now > 0
    /\ last.amount = InitialBalance
    /\ escrows[last.escrow].timeout = now + last.timeout
    /\ token[Vault(last.escrow)] = last.amount
    /\ token[Wallet(last.caller)] = 0

-----------------------------------------------------------------------------
\* C14: a successful Withdraw increases the recipient's balance by exactly
\* the record's amount and sets status Withdrawn.
C14_WithdrawCreditsRecipient ==
    [][(now' = now /\ last'.op = "Withdraw" /\ last'.result = "Ok"
          /\ escrows[last'.escrow].status = StatusInitialized) =>
         LET rec == escrows[last'.escrow] IN
         /\ token'[Wallet(rec.recipient)] =
              token[Wallet(rec.recipient)] + rec.amount
         /\ escrows'[last'.escrow].status = StatusWithdrawn]_vars

\* C15: a successful Refund returns exactly the record's amount to the
\* initializer, whose balance is then what it was before Initialize (the
\* initial balance, there being one escrow), and sets status Refunded.
C15_RefundRestoresInitializer ==
    [][(now' = now /\ last'.op = "Refund" /\ last'.result = "Ok"
          /\ escrows[last'.escrow].status = StatusInitialized) =>
         LET rec == escrows[last'.escrow] IN
         /\ token'[Wallet(rec.initializer)] =
              token[Wallet(rec.initializer)] + rec.amount
         /\ token'[Wallet(rec.initializer)] = InitialBalance
         /\ escrows'[last'.escrow].status = StatusRefunded]_vars

\* C16: a successful Cancel returns exactly the record's amount to the
\* initializer, whose balance is then what it was before Initialize, and
\* sets status Cancelled; a record becomes Cancelled only in a successful
\* Cancel.
C16_CancelRestoresInitializer ==
    [][/\ (now' = now /\ last'.op = "Cancel" /\ last'.result = "Ok"
             /\ escrows[last'.escrow].status = StatusInitialized) =>
            LET rec == escrows[last'.escrow] IN
            /\ token'[Wallet(rec.initializer)] =
                 token[Wallet(rec.initializer)] + rec.amount
            /\ token'[Wallet(rec.initializer)] = InitialBalance
            /\ escrows'[last'.escrow].status = StatusCancelled
       /\ \A k \in DOMAIN escrows' :
            (escrows'[k].status = StatusCancelled
               /\ (k \notin DOMAIN escrows
                     \/ escrows[k].status # StatusCancelled)) =>
              (last'.op = "Cancel" /\ last'.result = "Ok"
                 /\ last'.escrow = k)]_vars

-----------------------------------------------------------------------------
\* C17: no partial effect on failure.  Whenever Initialize, Withdraw, Refund,
\* Cancel or ResolveByArbiter fails, for any reason including a failure of
\* the token transfer, the Escrow accounts (or their absence), the vault
\* balances, the party balances and the event log are exactly as before the
\* call; and the token transfer and the status change come together: a step
\* that changes a balance or creates a token account is a successful
\* instruction that also creates or changes the Escrow account, and a step
\* that creates or changes an Escrow account has executed the transfer of
\* the record's amount.
C17_NoPartialEffect ==
    [][/\ (now' = now /\ last'.result # "Ok") =>
            (escrows' = escrows /\ token' = token /\ events' = events)
       /\ token' # token => (last'.result = "Ok" /\ escrows' # escrows)
       /\ escrows' # escrows =>
            /\ last'.result = "Ok"
            /\ IF last'.op = "Initialize"
               THEN /\ token'[last'.vault] = last'.amount
                    /\ token'[last'.dest] = token[last'.dest] - last'.amount
               ELSE token' = Transfer(token, last'.vault, last'.dest,
                                      escrows[last'.escrow].amount)]_vars

\* An Initialize has just failed in the deposit transfer itself (the amount
\* exceeds the balance of the deposit account) and has left neither an
\* Escrow account nor a vault.
C17_Witness ==
    /\ last.op = "Initialize"
    /\ last.result = "InsufficientFunds"
    /\ last.escrow \notin DOMAIN escrows
    /\ last.vault \notin DOMAIN token
    /\ token[Wallet(last.caller)] = InitialBalance

-----------------------------------------------------------------------------
\* C18 as stated: every Initialize with amount = 0 fails with InvalidAmount
\* and creates no record and no vault, whatever the other arguments and the
\* initializer's balance are.
C18_ZeroAmountInvalidAmount ==
    [][(now' = now /\ last'.op = "Initialize" /\ last'.amount = 0) =>
         /\ last'.result = "InvalidAmount"
         /\ escrows' = escrows
         /\ token' = token]_vars

\* C18, amended: every Initialize with amount = 0 fails and creates no record
\* and no vault, whatever the other arguments and the initializer's balance
\* are.  The error is InvalidAmount when the pair has no record and the
\* deposit account passed is the initializer's own and holds a positive
\* balance; otherwise account validation fails first, with AccountInUse
\* when the pair has a record and with ConstraintRaw when the deposit
\* account is empty or not the initializer's.
C18_ZeroAmountFails ==
    [][(now' = now /\ last'.op = "Initialize" /\ last'.amount = 0) =>
         LET k       == last'.escrow
             own     == Wallet(last'.caller)
             withOwn == InitializeResult(escrows, token, now, k[1], k[2], own,
                                         0, last'.timeout)
         IN
         /\ escrows' = escrows
         /\ token' = token
         /\ last'.result \in {"InvalidAmount", "AccountInUse", "ConstraintRaw"}
         /\ last'.result = "AccountInUse" <=> k \in DOMAIN escrows
         /\ last'.result = "InvalidAmount" => withOwn = "InvalidAmount"
         /\ withOwn = "InvalidAmount" <=>
              (k \notin DOMAIN escrows /\ token[own] > 0)]_vars

\* An Initialize with amount 0, recipient = initializer and a timeout that
\* overflows has just failed with InvalidAmount.
C18_Witness ==
    /\ last.op = "Initialize"
    /\ last.amount = 0
    /\ last.result = "InvalidAmount"
    /\ last.escrow = EscrowKey(last.caller, last.caller)
    /\ last.timeout = MaxTs
    /\ now > 0

-----------------------------------------------------------------------------
\* C19 as stated: every Initialize with initializer = recipient and
\* amount > 0 fails with InvalidRecipient and creates no record and no
\* vault.
C19_SelfEscrowInvalidRecipient ==
    [][(now' = now /\ last'.op = "Initialize" /\ last'.amount > 0
          /\ last'.escrow = EscrowKey(last'.caller, last'.caller)) =>
         /\ last'.result = "InvalidRecipient"
         /\ escrows' = escrows
         /\ token' = token]_vars

\* C19, amended: every Initialize with initializer = recipient and
\* amount > 0 fails and creates no record and no vault.  The error is
\* InvalidRecipient when the deposit account passed is the initializer's own
\* and holds a positive balance, whatever the amount and the timeout are;
\* it is ConstraintRaw when the deposit account is empty or not the
\* initializer's.
C19_SelfEscrowFails ==
    [][(now' = now /\ last'.op = "Initialize" /\ last'.amount > 0
          /\ last'.escrow = EscrowKey(last'.caller, last'.caller)) =>
         LET own     == Wallet(last'.caller)
             withOwn == InitializeResult(escrows, token, now, last'.caller,
                                         last'.caller, own, last'.amount,
                                         last'.timeout)
         IN
         /\ escrows' = escrows
         /\ token' = token
         /\ last'.result \in {"InvalidRecipient", "ConstraintRaw"}
         /\ last'.result = "InvalidRecipient" => withOwn = "InvalidRecipient"
         /\ withOwn = "InvalidRecipient" <=> token[own] > 0]_vars

\* An Initialize with recipient = initializer, an amount above the
\* initializer's balance and a timeout that overflows has just failed with
\* InvalidRecipient.
C19_Witness ==
    /\ last.op = "Initialize"
    /\ last.result = "InvalidRecipient"
    /\ last.escrow = EscrowKey(last.caller, last.caller)
    /\ last.amount > token[Wallet(last.caller)]
    /\ last.timeout = MaxTs
    /\ now > 0

-----------------------------------------------------------------------------
\* C20: every Escrow account that exists in a reachable state has
\* amount > 0 and initializer # recipient (and sits at the address derived
\* from its initializer and recipient).
C20_RecordsWellFormed ==
    \A k \in DOMAIN escrows :
      /\ escrows[k].amount > 0
      /\ escrows[k].initializer # escrows[k].recipient
      /\ k = EscrowKey(escrows[k].initializer, escrows[k].recipient)

\* A record with the smallest amount exists, and an Initialize for amount 0
\* has just been rejected.
C20_Witness ==
    /\ \E k \in DOMAIN escrows : escrows[k].amount = 1
    /\ last.op = "Initialize"
    /\ last.amount = 0
    /\ last.result = "InvalidAmount"

-----------------------------------------------------------------------------
\* C21 as stated: every Initialize whose deadline now + timeout_duration
\* does not fit the timestamp range fails with Overflow and creates no
\* record.
C21_OverflowAlways ==
    [][(now' = now /\ last'.op = "Initialize"
          /\ ~CheckedAddOk(now, last'.timeout)) =>
         /\ last'.result = "Overflow"
         /\ escrows' = escrows
         /\ token' = token]_vars

\* C21, amended: an Initialize whose deadline now + timeout_duration does
\* not fit the timestamp range fails and creates no record and no vault.
\* The error is Overflow when the call reaches the deadline computation
\* (the pair has no record, the deposit account is the initializer's own
\* with a positive balance, amount > 0 and initializer # recipient), even
\* when the amount exceeds the balance; otherwise it is the error of the
\* earlier check that fails.  The deadline stored by any Initialize is the
\* exact sum now + timeout_duration and lies in the timestamp range.
C21_DeadlineOverflow ==
    [][/\ (now' = now /\ last'.op = "Initialize"
             /\ ~CheckedAddOk(now, last'.timeout)) =>
            LET k   == last'.escrow
                own == Wallet(last'.caller)
            IN
            /\ escrows' = escrows
            /\ token' = token
            /\ last'.result \in {"AccountInUse", "ConstraintRaw",
                                 "InvalidAmount", "InvalidRecipient",
                                 "Overflow"}
            /\ (k \notin DOMAIN escrows /\ token[own] > 0
                  /\ last'.amount > 0 /\ k[1] # k[2]) =>
                 /\ last'.result \in {"Overflow", "ConstraintRaw"}
                 /\ InitializeResult(escrows, token, now, k[1], k[2], own,
                                     last'.amount, last'.timeout) = "Overflow"
       /\ \A k \in DOMAIN escrows' \ DOMAIN escrows :
            /\ escrows'[k].timeout = now + last'.timeout
            /\ escrows'[k].timeout \in MinTs..MaxTs]_vars

\* An Initialize with a positive amount for a new pair has just failed with
\* Overflow: the clock is past 0 and the timeout is the largest timestamp.
C21_Witness ==
    /\ last.op = "Initialize"
    /\ last.result = "Overflow"
    /\ last.amount > 0
    /\ last.escrow \notin DOMAIN escrows
    /\ now + last.timeout > MaxTs
    /\ escrows = << >>

-----------------------------------------------------------------------------
\* C22: an Initialize with amount greater than the balance of the
\* initializer's token account fails, creates no record and no vault and
\* leaves the initializer's balance (and every other balance) unchanged.
\* The failure is that of the deposit transfer (InsufficientFunds) when
\* every earlier check passes.
C22_AmountAboveBalance ==
    [][(now' = now /\ last'.op = "Initialize"
          /\ last'.amount > token[Wallet(last'.caller)]) =>
         LET k   == last'.escrow
             own == Wallet(last'.caller)
         IN
         /\ last'.result # "Ok"
         /\ escrows' = escrows
         /\ token' = token
         /\ \A deposit \in TokenAccounts :
              InitializeResult(escrows, token, now, k[1], k[2], deposit,
                               last'.amount, last'.timeout) # "Ok"
         /\ (k \notin DOMAIN escrows /\ token[own] > 0 /\ k[1] # k[2]
               /\ CheckedAddOk(now, last'.timeout)) =>
              /\ last'.result \in {"InsufficientFunds", "ConstraintRaw"}
              /\ InitializeResult(escrows, token, now, k[1], k[2], own,
                                  last'.amount, last'.timeout)
                   = "InsufficientFunds"]_vars

\* An Initialize for more than the (positive) balance of the initializer has
\* just failed in the deposit transfer; the balance is what it was.
C22_Witness ==
    /\ last.op = "Initialize"
    /\ last.result = "InsufficientFunds"
    /\ token[Wallet(last.caller)] > 0
    /\ last.amount = token[Wallet(last.caller)] + 1
    /\ escrows = << >>

-----------------------------------------------------------------------------
\* C23: at most one record exists per (initializer, recipient) pair.  An
\* Initialize for a pair whose record exists with status Initialized fails
\* (the Escrow address is in use), whatever its arguments; the record, its
\* vault and every balance are unchanged.
C23_OneRecordPerPair ==
    [][(now' = now /\ last'.op = "Initialize"
          /\ last'.escrow \in DOMAIN escrows
          /\ escrows[last'.escrow].status = StatusInitialized) =>
         /\ last'.result = "AccountInUse"
         /\ \A deposit \in TokenAccounts :
              InitializeResult(escrows, token, now, last'.escrow[1],
                               last'.escrow[2], deposit, last'.amount,
                               last'.timeout) = "AccountInUse"
         /\ escrows' = escrows
         /\ token' = token
         /\ events' = events]_vars

\* A second Initialize with a positive amount the initializer can afford has
\* just been rejected for a pair whose escrow is open with its vault funded.
C23_Witness ==
    /\ last.op = "Initialize"
    /\ last.result = "AccountInUse"
    /\ last.escrow \in DOMAIN escrows
    /\ escrows[last.escrow].status = StatusInitialized
    /\ last.amount > 0
    /\ last.amount <= token[Wallet(last.caller)]
    /\ token[Vault(last.escrow)] = escrows[last.escrow].amount

-----------------------------------------------------------------------------
\* C24: frame of the terminal operations.  A successful Withdraw, Refund,
\* Cancel or ResolveByArbiter changes, of the Escrow accounts, only the
\* status of the record it is applied to and, of the token accounts, only
\* the balances of the vault and of the destination passed; no account is
\* created or removed.  In every step an existing record keeps its
\* initializer, recipient, arbiter, amount, deadline and bumps.
C24_TerminalFrame ==
    [][/\ \A k \in DOMAIN escrows :
            /\ k \in DOMAIN escrows'
            /\ [escrows'[k] EXCEPT !.status = escrows[k].status] = escrows[k]
       /\ (now' = now /\ last'.op \in TerminalOps /\ last'.result = "Ok"
             /\ escrows[last'.escrow].status = StatusInitialized) =>
            /\ DOMAIN escrows' = DOMAIN escrows
            /\ \A x \in DOMAIN escrows \ {last'.escrow} :
                 escrows'[x] = escrows[x]
            /\ escrows'[last'.escrow].status \in Terminal
            /\ DOMAIN token' = DOMAIN token
            /\ \A a \in DOMAIN token \ {last'.vault, last'.dest} :
                 token'[a] = token[a]]_vars

\* With two escrows open, one has just been withdrawn to the wallet of a
\* party other than its recipient; the other is still open.
C24_Witness ==
    /\ last.op = "Withdraw"
    /\ last.result = "Ok"
    /\ IsWallet(last.dest)
    /\ last.dest # Wallet(escrows[last.escrow].recipient)
    /\ escrows[last.escrow].status = StatusWithdrawn
    /\ \E x \in DOMAIN escrows \ {last.escrow} :
         escrows[x].status = StatusInitialized

-----------------------------------------------------------------------------
\* The kind of event each instruction emits.
EventOf(op) ==
    CASE op = "Initialize" -> "EscrowInitialized"
      [] op = "Withdraw" -> "EscrowWithdrawn"
      [] op = "Refund" -> "EscrowRefunded"
      [] op = "Cancel" -> "EscrowCancelled"
      [] op = "ResolveByArbiter" -> "EscrowResolved"

\* C25: every successful instruction appends exactly one event of its own
\* kind, naming its escrow (EscrowResolved carries the release_to_recipient
\* chosen, the events with an amount carry the record's amount), a failed
\* instruction appends none, and the events already in the log are never
\* changed or removed.
C25_Events ==
    [][/\ Len(events') >= Len(events)
       /\ SubSeq(events', 1, Len(events)) = events
       /\ (now' = now /\ last'.result # "Ok") => events' = events
       /\ events' # events => (last'.result = "Ok" /\ escrows' # escrows)
       /\ escrows' # escrows =>
            LET e == events'[Len(events')] IN
            /\ Len(events') = Len(events) + 1
            /\ e.kind = EventOf(last'.op)
            /\ e.escrow = last'.escrow
            /\ e.kind = "EscrowResolved" =>
                 (e.release = last'.release /\ e.arbiter = last'.caller)
            /\ e.kind \in {"EscrowInitialized", "EscrowWithdrawn",
                           "EscrowRefunded"} =>
                 (e.amount = escrows'[last'.escrow].amount
                    /\ e.party = last'.caller)
            /\ e.kind = "EscrowCancelled" => e.party = last'.caller]_vars

\* The log holds the event of an Initialize followed by the event of a
\* resolution in favour of the recipient, and a call has failed since.
C25_Witness ==
    /\ Len(events) = 2
    /\ events[1].kind = "EscrowInitialized"
    /\ events[2].kind = "EscrowResolved"
    /\ events[2].release
    /\ last.result # "Ok"

-----------------------------------------------------------------------------
\* C26: vault isolation between escrows.  An instruction on one record
\* leaves every other record and the balance of every other record's vault
\* unchanged, and a terminal instruction debits only the vault derived from
\* the record it is applied to.
C26_VaultIsolation ==
    [][(now' = now /\ last' # last) =>
         /\ \A x \in DOMAIN escrows \ {last'.escrow} :
              /\ escrows'[x] = escrows[x]
              /\ token'[Vault(x)] = token[Vault(x)]
         /\ \A a \in DOMAIN token :
              (token'[a] < token[a] /\ last'.op \in TerminalOps) =>
                a = Vault(last'.escrow)]_vars

-----------------------------------------------------------------------------
\* C27: pull design.  A record that is Initialized with its deadline passed
\* is left as it is, with its vault balance, by the passing of time and by
\* every failed instruction; the only instructions that take it out of
\* Initialized are a successful Refund and a successful ResolveByArbiter on
\* that record.
C27_ExpiredStaysUntilPulled ==
    [][\A k \in DOMAIN escrows :
         (escrows[k].status = StatusInitialized /\ now >= escrows[k].timeout) =>
           /\ (now' # now \/ last'.result # "Ok") =>
                (escrows'[k] = escrows[k]
                   /\ token'[Vault(k)] = token[Vault(k)])
           /\ escrows'[k].status # StatusInitialized =>
                /\ last'.op \in {"Refund", "ResolveByArbiter"}
                /\ last'.result = "Ok"
                /\ last'.escrow = k
                /\ now' = now]_vars

\* A record is still Initialized, funded, strictly after its deadline, and a
\* Cancel by the initializer has just been refused.
C27_Witness ==
    /\ last.op = "Cancel"
    /\ last.result = "CancelNotAllowed"
    /\ escrows[last.escrow].status = StatusInitialized
    /\ now > escrows[last.escrow].timeout
    /\ token[Vault(last.escrow)] = escrows[last.escrow].amount

-----------------------------------------------------------------------------
\* C28: an instruction whose vault account is not the one derived from the
\* record fails with the program's error InvalidBump and has no effect
\* (stated for calls by the party the instruction authenticates, so that no
\* earlier check fails).
C28_InvalidBump ==
    [][(now' = now /\ last'.op \in TerminalOps
          /\ Authorized(last'.op, last'.caller, escrows[last'.escrow])
          /\ last'.vault # Vault(last'.escrow)) =>
         /\ last'.result = "InvalidBump"
         /\ escrows' = escrows
         /\ token' = token
         /\ events' = events]_vars

-----------------------------------------------------------------------------
\* C29: the initializer always has an exit.  In every reachable state, for
\* every record in status Initialized, exactly one of Cancel and Refund
\* called by the initializer with the record's vault is accepted: Cancel
\* (and not Refund) when now < deadline, Refund (and not Cancel) when
\* now >= deadline.
C29_InitializerExit ==
    \A k \in DOMAIN escrows :
      escrows[k].status = StatusInitialized =>
        LET rec == escrows[k]
            c   == CancelResult(rec, k, token, now, rec.initializer, Vault(k))
            r   == RefundResult(rec, k, token, now, rec.initializer, Vault(k))
        IN
        IF now < rec.timeout
        THEN c = "Ok" /\ r = "RefundNotAllowed"
        ELSE r = "Ok" /\ c = "CancelNotAllowed"

\* The initializer has just been refused a Refund one second before the
\* deadline; the record is still Initialized.
C29_Witness ==
    /\ last.op = "Refund"
    /\ last.result = "RefundNotAllowed"
    /\ last.caller = escrows[last.escrow].initializer
    /\ escrows[last.escrow].status = StatusInitialized
    /\ now + 1 = escrows[last.escrow].timeout

-----------------------------------------------------------------------------
\* Refund by the initializer of k is accepted now.
RefundAllowed(k) ==
    /\ k \in DOMAIN escrows
    /\ RefundResult(escrows[k], k, token, now, escrows[k].initializer,
                    Vault(k)) = "Ok"
\* Record k exists and is Initialized.
Open(k) == k \in DOMAIN escrows /\ escrows[k].status = StatusInitialized
\* The deadline of record k has been reached.
Expired(k) == k \in DOMAIN escrows /\ now >= escrows[k].timeout

\* C30: the timing windows never reopen.  A Withdraw or Cancel on a record
\* fails with TimeoutExpired or CancelNotAllowed only when the deadline has
\* been reached; a deadline that has been reached remains reached in every
\* later state (the clock does not go back, the deadline does not move, the
\* record stays); while it is reached no step is a successful Withdraw or
\* Cancel on the record, and Refund by the initializer is accepted for as
\* long as the record is Initialized.
C30_WindowsNeverReopen ==
    [][\A k \in DOMAIN escrows :
         /\ (now' = now /\ last' # last /\ last'.escrow = k
               /\ \/ last'.op = "Withdraw" /\ last'.result = "TimeoutExpired"
                  \/ last'.op = "Cancel" /\ last'.result = "CancelNotAllowed")
              => Expired(k)
         /\ Expired(k) =>
              /\ Expired(k)'
              /\ ~(escrows'[k] # escrows[k] /\ last'.op \in {"Withdraw", "Cancel"})
              /\ Open(k) => RefundAllowed(k)
              /\ Open(k)' => RefundAllowed(k)']_vars

\* A Withdraw has just been refused with TimeoutExpired on a record that is
\* still Initialized, at a time after its deadline.
C30_Witness ==
    /\ last.op = "Withdraw"
    /\ last.result = "TimeoutExpired"
    /\ escrows[last.escrow].status = StatusInitialized
    /\ now > escrows[last.escrow].timeout
    /\ RefundAllowed(last.escrow)

-----------------------------------------------------------------------------
\* C31: Initialize accepts a zero or negative timeout_duration.  An
\* otherwise valid Initialize (new pair, own deposit account, amount between
\* 1 and the balance, initializer # recipient) with timeout_duration <= 0
\* whose sum with the clock does not overflow is accepted; the record it
\* creates has deadline <= now.  From a state in which the deadline is
\* reached, it stays reached, no step is a successful Withdraw or Cancel on
\* the record, every Withdraw by the recipient and Cancel by the initializer
\* is refused for timing, and Refund by the initializer is accepted while the
\* record is Initialized: so on such a record Withdraw and Cancel never
\* succeed and Refund succeeds from the first instant.
C31_NonPositiveTimeout ==
    [][/\ \A i \in Initializers, r \in Recipients,
            d \in {x \in SignedTimeouts : x <= 0} :
            (i # r /\ EscrowKey(i, r) \notin DOMAIN escrows
               /\ CheckedAddOk(now, d)) =>
              \A amount \in 1..token[Wallet(i)] :
                InitializeResult(escrows, token, now, i, r, Wallet(i),
                                 amount, d) = "Ok"
       /\ (now' = now /\ last'.op = "Initialize" /\ last'.result = "Ok"
             /\ last'.timeout <= 0) =>
            /\ escrows'[last'.escrow].timeout <= now
            /\ escrows'[last'.escrow].status = StatusInitialized
            /\ now' >= escrows'[last'.escrow].timeout
       /\ \A k \in DOMAIN escrows :
            Expired(k) =>
              /\ Expired(k)'
              /\ ~(escrows'[k] # escrows[k]
                     /\ last'.op \in {"Withdraw", "Cancel"})
              /\ Open(k) =>
                   /\ RefundAllowed(k)
                   /\ WithdrawResult(escrows[k], k, token, now,
                                     escrows[k].recipient, Vault(k))
                        = "TimeoutExpired"
                   /\ CancelResult(escrows[k], k, token, now,
                                   escrows[k].initializer, Vault(k))
                        = "CancelNotAllowed"]_vars

\* An Initialize with timeout_duration 0 has just succeeded at a time past
\* 0: the deadline is the present instant, Refund is accepted and Withdraw
\* by the recipient is refused.
C31_Witness ==
    /\ last.op = "Initialize"
    /\ last.result = "Ok"
    /\ last.timeout = 0
    /\ now > 0
    /\ escrows[last.escrow].timeout = now
    /\ RefundAllowed(last.escrow)
    /\ WithdrawResult(escrows[last.escrow], last.escrow, token, now,
                      escrows[last.escrow].recipient, Vault(last.escrow))
         = "TimeoutExpired"

-----------------------------------------------------------------------------
\* Number of EscrowInitialized events the log holds for the record k.
InitializedEventCount(k, log) ==
    Cardinality({n \in 1..Len(log) :
                   log[n].escrow = k /\ log[n].kind = "EscrowInitialized"})

\* C32: a record is never deleted or re-created.  No step removes a record,
\* and a record that has reached a terminal status stays exactly as it is.
\* An Initialize for a pair whose record has a terminal status fails with
\* the address in use, whatever its arguments and deposit account, and
\* changes no record, no balance and no event; so the log never holds more
\* than one EscrowInitialized event for a pair.
C32_RecordNeverRecreated ==
    [][/\ DOMAIN escrows \subseteq DOMAIN escrows'
       /\ \A k \in DOMAIN escrows :
            escrows[k].status \in Terminal => escrows'[k] = escrows[k]
       /\ (now' = now /\ last'.op = "Initialize"
             /\ last'.escrow \in DOMAIN escrows
             /\ escrows[last'.escrow].status \in Terminal) =>
            /\ last'.result = "AccountInUse"
            /\ \A deposit \in TokenAccounts :
                 InitializeResult(escrows, token, now, last'.escrow[1],
                                  last'.escrow[2], deposit, last'.amount,
                                  last'.timeout) = "AccountInUse"
            /\ escrows' = escrows
            /\ token' = token
            /\ events' = events
       /\ \A k \in DOMAIN escrows' :
            InitializedEventCount(k, events') = 1]_vars

\* An Initialize with a positive amount the initializer can afford and a
\* deadline that does not overflow has just been rejected for a pair whose
\* record has a terminal status and whose vault is empty.
C32_Witness ==
    /\ last.op = "Initialize"
    /\ last.result = "AccountInUse"
    /\ last.escrow \in DOMAIN escrows
    /\ last.escrow[1] # last.escrow[2]
    /\ escrows[last.escrow].status \in Terminal
    /\ last.amount > 0
    /\ last.amount <= token[Wallet(last.caller)]
    /\ CheckedAddOk(now, last.timeout)
    /\ token[Vault(last.escrow)] = 0
    /\ InitializedEventCount(last.escrow, events) = 1

-----------------------------------------------------------------------------
\* The record k is open and its arbiter is also its initializer or its
\* recipient.
PartyArbiter(k) ==
    /\ Open(k)
    /\ escrows[k].arbiter \in {escrows[k].initializer, escrows[k].recipient}

=============================================================================
